---- MODULE Spec2Model ----
(***************************************************************************)
(* Orchestration state machine of the payment server (src/server.js; the   *)
(* revision src/unnamed/part_000 has the same four handlers, with a second *)
(* client for the receiver's calls in /linkpay).                           *)
(*                                                                         *)
(* JavaScript runs one handler turn at a time: the code between two        *)
(* `await`s is atomic, and every `await` is a point where other requests   *)
(* may run.  Each action below is one such turn of one handler: it         *)
(* receives the result of the remote call the handler was awaiting and     *)
(* runs the handler up to its next `await` (issuing the next remote call)  *)
(* or up to its response.  The upstream effect of a call is recorded at    *)
(* the turn that receives its response.                                    *)
(***************************************************************************)
EXTENDS Integers, Sequences, FiniteSets, TLC

\* ---------------------------------------------------------------- bounds
MaxReqs == 3        \* handler invocations over the life of the process
MaxInFlight == 2    \* invocations that may be suspended at an await at once
MaxFailures == 1    \* remote calls that fail over the life of the process

Reqs == 1..MaxReqs

\* ------------------------------------------------------- values and ids
NoValue == <<"none", 0>>            \* undefined / absent
UnknownState == <<"state", 0>>      \* a flow token that was never issued
UnknownIp == <<"ip", 0>>            \* a receivable id that was never issued

\* crypto.randomUUID() of invocation r: unique per invocation
\* variant: a generator that gives every invocation the same token
RandomUUIDFixed(r) == <<"state", 1>>

RandomUUID(r) == <<"state", r>>
\* ids the upstream servers hand out to invocation r
IncomingPaymentId(r) == <<"ip", r>>
QuoteId(r) == <<"quote", r>>
ContinueUri(r) == <<"continue", r>>
ContinueToken(r) == <<"ctoken", r>>
\* access token of the finalized grant reached through continuation uri u
AccessTokenOf(u) == <<"access", u[2]>>

\* req.query.amount / req.body.amountMXN as received, and Number() of it
RawAmounts == {"undefined", "abc", "Infinity", "-5", "0", "100.00"}

\* further inputs for the amount path on its own
AmountInputs ==
  RawAmounts \cup {"", "12abc", "-Infinity", "1e400", "-0.5", "0.01", "1.5",
                   "2.346", "7", "1e21"}

\* a number is NaN, an infinity of sign m, or the finite value m * 10^e
NaN == [kind |-> "nan", m |-> 0, e |-> 0]
Infinite(sign) == [kind |-> "inf", m |-> sign, e |-> 0]
Dec(m, e) == [kind |-> "fin", m |-> m, e |-> e]

Number(raw) ==
  CASE raw = "undefined" -> NaN
    [] raw = "abc"       -> NaN
    [] raw = "12abc"     -> NaN
    [] raw = ""          -> Dec(0, 0)
    [] raw = "Infinity"  -> Infinite(1)
    [] raw = "-Infinity" -> Infinite(-1)
    [] raw = "1e400"     -> Infinite(1)
    [] raw = "-5"        -> Dec(-5, 0)
    [] raw = "-0.5"      -> Dec(-5, -1)
    [] raw = "0"         -> Dec(0, 0)
    [] raw = "0.01"      -> Dec(1, -2)
    [] raw = "1.5"       -> Dec(15, -1)
    [] raw = "2.346"     -> Dec(2346, -3)
    [] raw = "7"         -> Dec(7, 0)
    [] raw = "100.00"    -> Dec(1, 2)
    [] raw = "1e21"      -> Dec(1, 21)

IsFinite(n) == n.kind = "fin"

\* variant: a guard that lets zero through
ValidAmountNonNegative(n) == ~(~IsFinite(n) \/ n.m < 0)

\* the guard of both start handlers, negated: the amount is accepted
ValidAmount(n) == ~(~IsFinite(n) \/ n.m <= 0)

\* ------------------------------------------------------------- toMinor
MaxScale == 8
Scales == 0..MaxScale

RECURSIVE Pow10(_)
Pow10(k) == IF k = 0 THEN 1 ELSE 10 * Pow10(k - 1)

\* Math.pow(10, scale): exact for every scale here
MathPow(scale) == Dec(1, scale)

\* the product of two finite numbers.  The double nearest to it is off by
\* less than one part in 2^52, which none of the steps below can see on the
\* inputs of this model.
Times(a, b) == Dec(a.m * b.m, a.e + b.e)

\* Math.round: the nearest integer, a tie going up
MathRound(x) ==
  IF x.e >= 0 THEN x
  ELSE LET d == Pow10(-x.e)
           q == x.m \div d
           rem == x.m % d
       IN Dec(IF 2 * rem >= d THEN q + 1 ELSE q, 0)

DigitChars == <<"0", "1", "2", "3", "4", "5", "6", "7", "8", "9">>

RECURSIVE Digits(_)
Digits(n) ==
  IF n < 10 THEN <<DigitChars[n + 1]>>
  ELSE Digits(n \div 10) \o <<DigitChars[(n % 10) + 1]>>

Zeros(k) == [i \in 1..k |-> "0"]

RECURSIVE StripZeros(_)
StripZeros(ds) ==
  IF Len(ds) > 1 /\ ds[Len(ds)] = "0"
    THEN StripZeros(SubSeq(ds, 1, Len(ds) - 1)) ELSE ds

\* variant: String that always writes the digits out
StringPlain(x) ==
  IF x.m = 0 THEN <<"0">> ELSE Digits(x.m) \o Zeros(x.e)

\* String of a non-negative integer m * 10^e, as a sequence of characters:
\* all its digits below 10^21, exponent notation from there on
String(x) ==
  IF x.m = 0 THEN <<"0">>
  ELSE LET ds == Digits(x.m)
           n == Len(ds) + x.e
           sd == StripZeros(ds)
       IN IF n <= 21 THEN ds \o Zeros(x.e)
          ELSE <<sd[1]>> \o (IF Len(sd) > 1 THEN <<".">> \o Tail(sd) ELSE <<>>)
                 \o <<"e", "+">> \o Digits(n - 1)

toMinor(amountMajor, scale) ==
  String(MathRound(Times(amountMajor, MathPow(scale))))

\* ------------------------------------------------------------- grants
PendingGrant == [access_token |-> NoValue]
FinalizedGrant(u) == [access_token |-> AccessTokenOf(u)]

\* variant: any continuation result is taken for a finalized grant
isFinalizedGrantLax(g) == TRUE

isFinalizedGrant(g) == g.access_token # NoValue

\* ----------------------------------------------------------- the maps
NoSession == [continueUri |-> NoValue, continueAccessToken |-> NoValue,
              quoteId |-> NoValue]

MapHas(m, k) == k \in DOMAIN m
MapGet(m, k) == IF k \in DOMAIN m THEN m[k] ELSE NoSession
\* variant: set that forgets every other entry
MapSetAlone(m, k, v) == [x \in {k} |-> v]

\* variant: set that keeps the entry a key already has
MapSetIfAbsent(m, k, v) ==
  [x \in DOMAIN m \cup {k} |-> IF x \in DOMAIN m THEN m[x] ELSE v]

MapSet(m, k, v) == [x \in DOMAIN m \cup {k} |-> IF x = k THEN v ELSE m[x]]
\* variant: delete that removes nothing
MapDeleteNoop(m, k) == m

MapDelete(m, k) == [x \in DOMAIN m \ {k} |-> m[x]]

\* ------------------------------------------------------------- state
VARIABLES
  clientOk,       \* sendingClientPromise resolves (TRUE) or rejects (FALSE)
  receiverOk,     \* receivingClientPromise of the later revision, likewise
  proc,           \* the process: "starting", "serving" or "exited"
  reqs,           \* the handler invocations
  paySessions,    \* state -> session          (/linkpay -> /pay/callback)
  pendingGrants,  \* incomingPaymentId -> session      (/quote -> /pago)
  payments,       \* outgoing payments created upstream
  deletes         \* per key, how many delete calls removed an entry

vars == <<clientOk, receiverOk, proc, reqs, paySessions, pendingGrants, payments, deletes>>

\* response bodies: <<format, content>>
NoBody == <<"none", <<>>>>

IdleReq == [kind |-> "none", pc |-> "idle", key |-> NoValue,
            amount |-> NaN,
            stash |-> NoSession, finalized |-> PendingGrant,
            calls |-> <<>>, returned |-> 0, failedAt |-> 0,
            outcome |-> "none", body |-> NoBody,
            raw |-> "none", scale |-> 0, value |-> <<>>]

\* the server is listening; its one client was created or not
Init ==
  /\ clientOk \in BOOLEAN
  /\ receiverOk = TRUE
  /\ proc = "serving"
  /\ reqs = [r \in Reqs |-> IdleReq]
  /\ paySessions = <<>>
  /\ pendingGrants = <<>>
  /\ payments = {}
  /\ deletes = <<>>

\* ------------------------------------------------- handler building blocks
InFlight == {r \in Reqs : reqs[r].pc \notin {"idle", "done"}}

\* a new request arrives: slots are taken in order
CanStart(r) ==
  /\ proc = "serving"
  /\ reqs[r].pc = "idle"
  /\ \A q \in Reqs : q < r => reqs[q].pc # "idle"
  /\ Cardinality(InFlight) < MaxInFlight

\* a new /linkpay or /quote request arrives.  Every turn of these handlers
\* but the last writes only the invocation's own locals, and the last writes
\* one map entry under a key no other invocation writes, so two of them
\* suspended at once reach no state of the maps that one after the other
\* does not reach: the model admits one at a time (resume requests still
\* overlap it and each other).
CanStartFlow(r) ==
  /\ CanStart(r)
  /\ \A q \in InFlight : reqs[q].kind \notin {"linkpay", "quote"}

At(r, kind, pc) == reqs[r].kind = kind /\ reqs[r].pc = pc

\* the awaited call returned; the handler issues the next remote call
Issue(q, call, pc) ==
  [q EXCEPT !.returned = Len(q.calls),
            !.calls = Append(q.calls, call),
            !.pc = pc]

\* variant: the branch of a grant that is not finalized returns without
\* sending anything
RespondSilent(q, outcome) ==
  IF outcome = "ConsentIncomplete"
    THEN [q EXCEPT !.returned = Len(q.calls), !.pc = "returned"]
    ELSE [q EXCEPT !.returned = IF outcome = "UpstreamError" THEN @
                                                            ELSE Len(q.calls),
                   !.pc = "done", !.outcome = outcome]

\* the handler sends its response
Respond(q, outcome) ==
  [q EXCEPT !.returned = IF outcome = "UpstreamError" THEN @ ELSE Len(q.calls),
            !.pc = "done", !.outcome = outcome]

\* variant: a rejected call is issued again instead of ending the invocation
ThrowRetry(q) ==
  IF q.calls = <<>> THEN Respond(q, "UpstreamError")
  ELSE [q EXCEPT !.calls = Append(@, q.calls[Len(q.calls)])]

\* variant: the catch block answers as if the flow had gone through
ThrowSwallowed(q) ==
  [q EXCEPT !.failedAt = Len(q.calls), !.pc = "done",
            !.outcome = IF q.kind = "linkpay" THEN "Redirect"
                        ELSE IF q.kind = "quote" THEN "QuoteResult"
                        ELSE "PaymentCreated"]

\* the error a remote call rejects with.  Its text is the upstream's; it is
\* taken here to name the operation that rejected, the most any handler
\* could learn about the step from the error object.
Rejection(call) == [name |-> "OpenPaymentsClientError", message |-> call]

\* the operation a suspended invocation is waiting for
Awaited(q) ==
  IF q.calls = <<>> THEN "createAuthenticatedClient" ELSE q.calls[Len(q.calls)]

\* the body each handler's catch block sends with status 500
ErrorBody(kind, err) ==
  IF kind = "linkpay" THEN <<"text", <<"No se pudo iniciar el pago.">>>>
  ELSE IF kind = "callback" THEN <<"html", <<err.message>>>>
  ELSE <<"json", <<err.name, err.message>>>>

\* the awaited call rejected: control jumps to the handler's catch block
Throw(q) ==
  [Respond(q, "UpstreamError") EXCEPT !.failedAt = Len(q.calls),
                                     !.body = ErrorBody(q.kind, Rejection(Awaited(q)))]

\* a remote call returns normally (TRUE) or rejects (FALSE)
CallOutcomes ==
  IF Cardinality({r \in Reqs : reqs[r].failedAt # 0}) < MaxFailures
    THEN BOOLEAN ELSE {TRUE}

CountDelete(m, k) ==
  IF MapHas(m, k)
    THEN MapSet(deletes, k, (IF k \in DOMAIN deletes THEN deletes[k] ELSE 0) + 1)
    ELSE deletes

\* the names of the remote operations, in the order /linkpay and /quote use them
StartOrder ==
  <<"walletAddress.get:sender", "walletAddress.get:receiver",
    "grant.request:incoming-payment", "incomingPayment.create",
    "grant.request:quote", "quote.create",
    "grant.request:outgoing-payment">>

\* what the spend grant request of invocation r returns, as stored for resume
\* variant: the session keeps the quote grant's data instead of the quote id
SessionOfNoQuote(r) ==
  [continueUri |-> ContinueUri(r), continueAccessToken |-> ContinueToken(r),
   quoteId |-> NoValue]

SessionOf(r) ==
  [continueUri |-> ContinueUri(r), continueAccessToken |-> ContinueToken(r),
   quoteId |-> QuoteId(r)]

Others(r) == UNCHANGED <<clientOk, receiverOk, proc, paySessions, pendingGrants, payments, deletes>>

\* one turn that awaits call number i of StartOrder and, on success, issues
\* call number i+1; on failure jumps to the catch block
StartFlowTurn(r, kind, i) ==
  /\ At(r, kind, StartOrder[i])
  /\ \E ok \in CallOutcomes :
       reqs' = [reqs EXCEPT ![r] =
                  IF ok THEN Issue(@, StartOrder[i + 1], StartOrder[i + 1])
                        ELSE Throw(@)]
  /\ Others(r)

\* ============================================================ GET /linkpay
\* variant: the amount is validated only after the first wallet lookup
LinkpayStartLate(r) ==
  /\ CanStartFlow(r)
  /\ \E raw \in RawAmounts :
       LET amountMajor == Number(raw) IN
       reqs' = [reqs EXCEPT ![r] =
                  IF ~ValidAmount(amountMajor)
                    THEN Respond(Issue([@ EXCEPT !.kind = "linkpay"],
                                       StartOrder[1], StartOrder[1]),
                                 "InvalidAmount")
                    ELSE [@ EXCEPT !.kind = "linkpay", !.amount = amountMajor,
                                   !.pc = "sendingClientPromise"]]
  /\ Others(r)

\* variant: a new /linkpay request evicts the sessions stored so far
LinkpayStartEvict(r) ==
  /\ CanStartFlow(r)
  /\ \E raw \in RawAmounts :
       LET amountMajor == Number(raw) IN
       reqs' = [reqs EXCEPT ![r] =
                  IF ~ValidAmount(amountMajor)
                    THEN Respond([@ EXCEPT !.kind = "linkpay"], "InvalidAmount")
                    ELSE [@ EXCEPT !.kind = "linkpay", !.amount = amountMajor,
                                   !.pc = "sendingClientPromise"]]
  /\ paySessions' = <<>>
  /\ UNCHANGED <<clientOk, receiverOk, proc, pendingGrants, payments, deletes>>

LinkpayStart(r) ==
  /\ CanStartFlow(r)
  /\ \E raw \in RawAmounts :
       LET amountMajor == Number(raw) IN
       reqs' = [reqs EXCEPT ![r] =
                  IF ~ValidAmount(amountMajor)
                    THEN Respond([@ EXCEPT !.kind = "linkpay"], "InvalidAmount")
                    ELSE [@ EXCEPT !.kind = "linkpay", !.amount = amountMajor,
                                   !.pc = "sendingClientPromise"]]
  /\ Others(r)

\* variant: both wallet lookups are issued at once
LinkpayClientParallel(r) ==
  /\ At(r, "linkpay", "sendingClientPromise")
  /\ reqs' = [reqs EXCEPT ![r] =
                IF clientOk
                  THEN [Issue(@, StartOrder[1], StartOrder[2])
                          EXCEPT !.calls = Append(@, StartOrder[2])]
                  ELSE Throw(@)]
  /\ Others(r)

LinkpayClient(r) ==
  /\ At(r, "linkpay", "sendingClientPromise")
  /\ reqs' = [reqs EXCEPT ![r] =
                IF clientOk THEN Issue(@, StartOrder[1], StartOrder[1])
                            ELSE Throw(@)]
  /\ Others(r)

LinkpaySenderWallet(r) == StartFlowTurn(r, "linkpay", 1)
LinkpayReceiverWallet(r) == StartFlowTurn(r, "linkpay", 2)
LinkpayIncomingGrant(r) == StartFlowTurn(r, "linkpay", 3)
LinkpayIncomingPayment(r) == StartFlowTurn(r, "linkpay", 4)
LinkpayQuoteGrant(r) == StartFlowTurn(r, "linkpay", 5)

\* quote.create returned: state and nonce are generated, the interactive
\* spend grant is requested with finish uri .../pay/callback?state=<state>
\* variant: the session is stored as soon as the token is generated, before
\* the spend grant is requested
LinkpayQuoteStoreEarly(r) ==
  /\ At(r, "linkpay", StartOrder[6])
  /\ \E ok \in CallOutcomes :
       IF ok
         THEN /\ reqs' = [reqs EXCEPT ![r] =
                            Issue([@ EXCEPT !.key = RandomUUID(r)],
                                  StartOrder[7], StartOrder[7])]
              /\ paySessions' = MapSet(paySessions, RandomUUID(r), SessionOf(r))
         ELSE /\ reqs' = [reqs EXCEPT ![r] = Throw(@)]
              /\ paySessions' = paySessions
  /\ UNCHANGED <<clientOk, receiverOk, proc, pendingGrants, payments, deletes>>

LinkpayQuote(r) ==
  /\ At(r, "linkpay", StartOrder[6])
  /\ \E ok \in CallOutcomes :
       reqs' = [reqs EXCEPT ![r] =
                  IF ok THEN Issue([@ EXCEPT !.key = RandomUUID(r)],
                                   StartOrder[7], StartOrder[7])
                        ELSE Throw(@)]
  /\ Others(r)

\* variant: the session is stored whether or not the grant request succeeded
LinkpaySpendGrantEager(r) ==
  /\ At(r, "linkpay", StartOrder[7])
  /\ \E ok \in CallOutcomes :
       /\ paySessions' = MapSet(paySessions, reqs[r].key, SessionOf(r))
       /\ reqs' = [reqs EXCEPT ![r] =
                     IF ok THEN Respond(@, "Redirect") ELSE Throw(@)]
  /\ UNCHANGED <<clientOk, receiverOk, proc, pendingGrants, payments, deletes>>

\* variant: the handler goes on to continue the grant before it answers
LinkpaySpendGrantContinue(r) ==
  /\ At(r, "linkpay", StartOrder[7])
  /\ \E ok \in CallOutcomes :
       IF ok
         THEN /\ paySessions' = MapSet(paySessions, reqs[r].key, SessionOf(r))
              /\ reqs' = [reqs EXCEPT ![r] =
                            Respond(Issue(@, "grant.continue", "done"), "Redirect")]
         ELSE /\ paySessions' = paySessions
              /\ reqs' = [reqs EXCEPT ![r] = Throw(@)]
  /\ UNCHANGED <<clientOk, receiverOk, proc, pendingGrants, payments, deletes>>

\* the spend grant request returned: store the session, redirect the caller
LinkpaySpendGrant(r) ==
  /\ At(r, "linkpay", StartOrder[7])
  /\ \E ok \in CallOutcomes :
       IF ok
         THEN /\ paySessions' = MapSet(paySessions, reqs[r].key, SessionOf(r))
              /\ reqs' = [reqs EXCEPT ![r] = Respond(@, "Redirect")]
         ELSE /\ paySessions' = paySessions
              /\ reqs' = [reqs EXCEPT ![r] = Throw(@)]
  /\ UNCHANGED <<clientOk, receiverOk, proc, pendingGrants, payments, deletes>>

\* ======================================================= GET /pay/callback
\* what a request may carry as ?state=: nothing, a token that was never
\* issued, or a token some /linkpay invocation has put in a finish uri
\* (a token not generated yet cannot be guessed)
CallbackStates ==
  {NoValue, UnknownState}
    \cup {reqs[q].key : q \in {x \in Reqs : reqs[x].kind = "linkpay"}}

\* variant: only the presence of the parameter is checked
SessionFoundLax(m, state) == state # NoValue

SessionFound(m, state) == ~(state = NoValue \/ ~MapHas(m, state))

CallbackStart(r) ==
  /\ CanStart(r)
  /\ \E state \in CallbackStates :
       reqs' = [reqs EXCEPT ![r] =
                  IF ~SessionFound(paySessions, state)
                    THEN Respond([@ EXCEPT !.kind = "callback", !.key = state],
                                 "SessionNotFound")
                    ELSE [@ EXCEPT !.kind = "callback", !.key = state,
                                   !.stash = MapGet(paySessions, state),
                                   !.pc = "sendingClientPromise"]]
  /\ Others(r)

CallbackClient(r) ==
  /\ At(r, "callback", "sendingClientPromise")
  /\ reqs' = [reqs EXCEPT ![r] =
                IF clientOk THEN Issue(@, "grant.continue", "grant.continue")
                            ELSE Throw(@)]
  /\ Others(r)

\* what grant.continue may answer: an error, a grant still pending
\* interaction, or the finalized grant
ContinueResults ==
  {"pending", "finalized"} \cup (IF FALSE \in CallOutcomes THEN {"error"} ELSE {})

\* the handler's turn after grant.continue, shared by /pay/callback and /pago
AfterContinue(q, res, next) ==
  IF res = "error" THEN Throw(q)
  ELSE LET finalized == IF res = "finalized"
                          THEN FinalizedGrant(q.stash.continueUri)
                          ELSE PendingGrant
       IN IF ~isFinalizedGrant(finalized)
            THEN Respond([q EXCEPT !.finalized = finalized], "ConsentIncomplete")
            ELSE Issue([q EXCEPT !.finalized = finalized], next, next)

\* variant: a continuation that is not finalized drops the session
CallbackContinueDrop(r) ==
  /\ At(r, "callback", "grant.continue")
  /\ \E res \in ContinueResults :
       /\ reqs' = [reqs EXCEPT ![r] =
                     AfterContinue(@, res, "walletAddress.get:sender")]
       /\ paySessions' = IF res = "pending"
                           THEN MapDelete(paySessions, reqs[r].key)
                           ELSE paySessions
  /\ UNCHANGED <<clientOk, receiverOk, proc, pendingGrants, payments, deletes>>

CallbackContinue(r) ==
  /\ At(r, "callback", "grant.continue")
  /\ \E res \in ContinueResults :
       reqs' = [reqs EXCEPT ![r] =
                  AfterContinue(@, res, "walletAddress.get:sender")]
  /\ Others(r)

CallbackSenderWallet(r) ==
  /\ At(r, "callback", "walletAddress.get:sender")
  /\ \E ok \in CallOutcomes :
       reqs' = [reqs EXCEPT ![r] =
                  IF ok THEN Issue(@, "outgoingPayment.create",
                                   "outgoingPayment.create")
                        ELSE Throw(@)]
  /\ Others(r)

\* variant: the payment references the quote created last in the process
PaymentOfLastQuote(r, via) ==
  [by |-> r, via |-> via, key |-> reqs[r].key,
   accessToken |-> reqs[r].finalized.access_token,
   quoteId |-> LET qs == {q \in Reqs : reqs[q].kind \in {"linkpay", "quote"}
                                        /\ reqs[q].returned >= 6}
               IN IF qs = {} THEN NoValue
                  ELSE QuoteId(CHOOSE q \in qs : \A x \in qs : x <= q)]

\* the outgoing payment the handler asks for
PaymentOf(r, via) ==
  [by |-> r, via |-> via, key |-> reqs[r].key,
   accessToken |-> reqs[r].finalized.access_token,
   quoteId |-> reqs[r].stash.quoteId]

\* variant: the session is kept after the payment was created
CallbackPaymentKeep(r) ==
  /\ At(r, "callback", "outgoingPayment.create")
  /\ \E ok \in CallOutcomes :
       IF ok
         THEN /\ payments' = payments \cup {PaymentOf(r, "callback")}
              /\ reqs' = [reqs EXCEPT ![r] = Respond(@, "PaymentCreated")]
         ELSE /\ payments' = payments
              /\ reqs' = [reqs EXCEPT ![r] = Throw(@)]
  /\ UNCHANGED <<clientOk, receiverOk, proc, paySessions, pendingGrants, deletes>>

\* variant: the session is deleted as soon as the grant is finalized,
\* before the outcome of the payment creation is known
CallbackPaymentDeleteFirst(r) ==
  /\ At(r, "callback", "outgoingPayment.create")
  /\ \E ok \in CallOutcomes :
       /\ paySessions' = MapDelete(paySessions, reqs[r].key)
       /\ deletes' = CountDelete(paySessions, reqs[r].key)
       /\ IF ok
            THEN /\ payments' = payments \cup {PaymentOf(r, "callback")}
                 /\ reqs' = [reqs EXCEPT ![r] = Respond(@, "PaymentCreated")]
            ELSE /\ payments' = payments
                 /\ reqs' = [reqs EXCEPT ![r] = Throw(@)]
  /\ UNCHANGED <<clientOk, receiverOk, proc, pendingGrants>>

CallbackPayment(r) ==
  /\ At(r, "callback", "outgoingPayment.create")
  /\ \E ok \in CallOutcomes :
       IF ok
         THEN /\ payments' = payments \cup {PaymentOf(r, "callback")}
              /\ paySessions' = MapDelete(paySessions, reqs[r].key)
              /\ deletes' = CountDelete(paySessions, reqs[r].key)
              /\ reqs' = [reqs EXCEPT ![r] = Respond(@, "PaymentCreated")]
         ELSE /\ UNCHANGED <<payments, paySessions, deletes>>
              /\ reqs' = [reqs EXCEPT ![r] = Throw(@)]
  /\ UNCHANGED <<clientOk, receiverOk, proc, pendingGrants>>

\* ============================================================= POST /quote
QuoteStart(r) ==
  /\ CanStartFlow(r)
  /\ \E raw \in RawAmounts :
       LET amountMajor == Number(raw) IN
       reqs' = [reqs EXCEPT ![r] =
                  IF ~ValidAmount(amountMajor)
                    THEN Respond([@ EXCEPT !.kind = "quote"], "InvalidAmount")
                    ELSE [@ EXCEPT !.kind = "quote", !.amount = amountMajor,
                                   !.pc = "sendingClientPromise"]]
  /\ Others(r)

QuoteClient(r) ==
  /\ At(r, "quote", "sendingClientPromise")
  /\ reqs' = [reqs EXCEPT ![r] =
                IF clientOk THEN Issue(@, StartOrder[1], StartOrder[1])
                            ELSE Throw(@)]
  /\ Others(r)

QuoteSenderWallet(r) == StartFlowTurn(r, "quote", 1)
QuoteReceiverWallet(r) == StartFlowTurn(r, "quote", 2)
QuoteIncomingGrant(r) == StartFlowTurn(r, "quote", 3)

\* incomingPayment.create returned: its id is the key of this flow
QuoteIncomingPayment(r) ==
  /\ At(r, "quote", StartOrder[4])
  /\ \E ok \in CallOutcomes :
       reqs' = [reqs EXCEPT ![r] =
                  IF ok THEN Issue([@ EXCEPT !.key = IncomingPaymentId(r)],
                                   StartOrder[5], StartOrder[5])
                        ELSE Throw(@)]
  /\ Others(r)

QuoteQuoteGrant(r) == StartFlowTurn(r, "quote", 5)
QuoteQuote(r) == StartFlowTurn(r, "quote", 6)

QuoteSpendGrant(r) ==
  /\ At(r, "quote", StartOrder[7])
  /\ \E ok \in CallOutcomes :
       IF ok
         THEN /\ pendingGrants' = MapSet(pendingGrants, reqs[r].key, SessionOf(r))
              /\ reqs' = [reqs EXCEPT ![r] = Respond(@, "QuoteResult")]
         ELSE /\ pendingGrants' = pendingGrants
              /\ reqs' = [reqs EXCEPT ![r] = Throw(@)]
  /\ UNCHANGED <<clientOk, receiverOk, proc, paySessions, payments, deletes>>

\* ============================================================== POST /pago
\* what req.body.incomingPaymentId may be: nothing, an id that was never
\* issued, or the id of a receivable some /quote invocation has created
PagoIds ==
  {NoValue, UnknownIp}
    \cup {reqs[q].key : q \in {x \in Reqs : reqs[x].kind = "quote"}}

\* variant: the sender wallet is looked up before the registry is consulted
PagoStartLate(r) ==
  /\ CanStart(r)
  /\ \E incomingPaymentId \in PagoIds :
       LET stash == MapGet(pendingGrants, incomingPaymentId) IN
       reqs' = [reqs EXCEPT ![r] =
                  IF stash = NoSession
                    THEN Respond(Issue([@ EXCEPT !.kind = "pago",
                                                 !.key = incomingPaymentId],
                                       "walletAddress.get:sender", "done"),
                                 "NoPendingGrant")
                    ELSE [@ EXCEPT !.kind = "pago", !.key = incomingPaymentId,
                                   !.stash = stash,
                                   !.pc = "sendingClientPromise"]]
  /\ Others(r)

PagoStart(r) ==
  /\ CanStart(r)
  /\ \E incomingPaymentId \in PagoIds :
       LET stash == MapGet(pendingGrants, incomingPaymentId) IN
       reqs' = [reqs EXCEPT ![r] =
                  IF stash = NoSession
                    THEN Respond([@ EXCEPT !.kind = "pago",
                                           !.key = incomingPaymentId],
                                 "NoPendingGrant")
                    ELSE [@ EXCEPT !.kind = "pago", !.key = incomingPaymentId,
                                   !.stash = stash,
                                   !.pc = "sendingClientPromise"]]
  /\ Others(r)

PagoClient(r) ==
  /\ At(r, "pago", "sendingClientPromise")
  /\ reqs' = [reqs EXCEPT ![r] =
                IF clientOk THEN Issue(@, "walletAddress.get:sender",
                                       "walletAddress.get:sender")
                            ELSE Throw(@)]
  /\ Others(r)

PagoSenderWallet(r) ==
  /\ At(r, "pago", "walletAddress.get:sender")
  /\ \E ok \in CallOutcomes :
       reqs' = [reqs EXCEPT ![r] =
                  IF ok THEN Issue(@, "grant.continue", "grant.continue")
                        ELSE Throw(@)]
  /\ Others(r)

PagoContinue(r) ==
  /\ At(r, "pago", "grant.continue")
  /\ \E res \in ContinueResults :
       reqs' = [reqs EXCEPT ![r] =
                  AfterContinue(@, res, "outgoingPayment.create")]
  /\ Others(r)

\* variant: the registry entry is kept after the payment was created
PagoPaymentKeep(r) ==
  /\ At(r, "pago", "outgoingPayment.create")
  /\ \E ok \in CallOutcomes :
       IF ok
         THEN /\ payments' = payments \cup {PaymentOf(r, "pago")}
              /\ reqs' = [reqs EXCEPT ![r] = Respond(@, "PaymentCreated")]
         ELSE /\ payments' = payments
              /\ reqs' = [reqs EXCEPT ![r] = Throw(@)]
  /\ UNCHANGED <<clientOk, receiverOk, proc, paySessions, pendingGrants, deletes>>

PagoPayment(r) ==
  /\ At(r, "pago", "outgoingPayment.create")
  /\ \E ok \in CallOutcomes :
       IF ok
         THEN /\ payments' = payments \cup {PaymentOf(r, "pago")}
              /\ pendingGrants' = MapDelete(pendingGrants, reqs[r].key)
              /\ deletes' = CountDelete(pendingGrants, reqs[r].key)
              /\ reqs' = [reqs EXCEPT ![r] = Respond(@, "PaymentCreated")]
         ELSE /\ UNCHANGED <<payments, pendingGrants, deletes>>
              /\ reqs' = [reqs EXCEPT ![r] = Throw(@)]
  /\ UNCHANGED <<clientOk, receiverOk, proc, paySessions>>

\* =========================================================== specification
Linkpay(r) ==
  \/ LinkpayStart(r) \/ LinkpayClient(r) \/ LinkpaySenderWallet(r)
  \/ LinkpayReceiverWallet(r) \/ LinkpayIncomingGrant(r)
  \/ LinkpayIncomingPayment(r) \/ LinkpayQuoteGrant(r) \/ LinkpayQuote(r)
  \/ LinkpaySpendGrant(r)

CallbackResume(r) ==
  \/ CallbackClient(r) \/ CallbackContinue(r) \/ CallbackSenderWallet(r)
  \/ CallbackPayment(r)

Quote(r) ==
  \/ QuoteStart(r) \/ QuoteClient(r) \/ QuoteSenderWallet(r)
  \/ QuoteReceiverWallet(r) \/ QuoteIncomingGrant(r)
  \/ QuoteIncomingPayment(r) \/ QuoteQuoteGrant(r) \/ QuoteQuote(r)
  \/ QuoteSpendGrant(r)

Pago(r) ==
  \/ PagoStart(r) \/ PagoClient(r) \/ PagoSenderWallet(r)
  \/ PagoContinue(r) \/ PagoPayment(r)

Next ==
  \E r \in Reqs :
    Linkpay(r) \/ CallbackStart(r) \/ CallbackResume(r) \/ Quote(r) \/ Pago(r)

Spec == Init /\ [][Next]_vars

\* Resume requests for one flow token come one after the other: a
\* /pay/callback request starts only when no other request for the same
\* token is suspended in the handler
CallbackStartSeq(r) ==
  /\ CallbackStart(r)
  /\ \A q \in InFlight :
       reqs[q].kind = "callback" => reqs[q].key # reqs'[r].key

NextSeq ==
  \E r \in Reqs :
    Linkpay(r) \/ CallbackStartSeq(r) \/ CallbackResume(r) \/ Quote(r) \/ Pago(r)

SpecSeq == Init /\ [][NextSeq]_vars

\* ----------------------------------------------------------------- progress
\* the turns of an invocation after the one in which it arrived: each runs
\* when the promise the handler awaits settles
Continue(r) ==
  \/ LinkpayClient(r) \/ LinkpaySenderWallet(r) \/ LinkpayReceiverWallet(r)
  \/ LinkpayIncomingGrant(r) \/ LinkpayIncomingPayment(r)
  \/ LinkpayQuoteGrant(r) \/ LinkpayQuote(r) \/ LinkpaySpendGrant(r)
  \/ CallbackResume(r)
  \/ QuoteClient(r) \/ QuoteSenderWallet(r) \/ QuoteReceiverWallet(r)
  \/ QuoteIncomingGrant(r) \/ QuoteIncomingPayment(r) \/ QuoteQuoteGrant(r)
  \/ QuoteQuote(r) \/ QuoteSpendGrant(r)
  \/ PagoClient(r) \/ PagoSenderWallet(r) \/ PagoContinue(r) \/ PagoPayment(r)

\* every awaited promise settles and the event loop then runs the handler's
\* next turn
SpecLive == Init /\ [][Next]_vars /\ \A r \in Reqs : WF_vars(Continue(r))

\* -------------------------------------------------- the amount on its own
\* one start request is about to arrive with its amount; the receiver's
\* wallet will report its asset scale
InitAmount ==
  /\ clientOk = TRUE
  /\ receiverOk = TRUE
  /\ proc = "serving"
  /\ \E kind \in {"linkpay", "quote"}, raw \in AmountInputs, scale \in Scales :
       reqs = [r \in Reqs |->
                 IF r = 1 THEN [IdleReq EXCEPT !.kind = kind, !.raw = raw,
                                               !.scale = scale]
                          ELSE IdleReq]
  /\ paySessions = <<>>
  /\ pendingGrants = <<>>
  /\ payments = {}
  /\ deletes = <<>>

\* the first lines of /linkpay and /quote
ValidateAmount(r) ==
  /\ reqs[r].pc = "idle" /\ reqs[r].raw # "none"
  /\ LET amountMajor == Number(reqs[r].raw) IN
     reqs' = [reqs EXCEPT ![r] =
                IF ~ValidAmount(amountMajor)
                  THEN Respond(@, "InvalidAmount")
                  ELSE [@ EXCEPT !.amount = amountMajor, !.pc = "toMinor"]]
  /\ Others(r)

\* the value the handler puts in the incoming payment it asks for
ConvertAmount(r) ==
  /\ reqs[r].pc = "toMinor"
  /\ reqs' = [reqs EXCEPT ![r] =
                [@ EXCEPT !.value = toMinor(reqs[r].amount, reqs[r].scale),
                          !.pc = "incomingPayment.create"]]
  /\ Others(r)

NextAmount == \E r \in Reqs : ValidateAmount(r) \/ ConvertAmount(r)

SpecAmount == InitAmount /\ [][NextAmount]_vars

\* ------------------------------------------ a receivable id that comes back
\* The id of the incoming payment is whatever the upstream answers.  Here it
\* may also answer with an id it gave to an earlier /quote, so that a second
\* flow is stored under a key that is in use.
QuoteIncomingPaymentAgain(r) ==
  /\ At(r, "quote", StartOrder[4])
  /\ \E ok \in CallOutcomes :
       \E id \in {IncomingPaymentId(r)} \cup (PagoIds \ {NoValue, UnknownIp}) :
         reqs' = [reqs EXCEPT ![r] =
                    IF ok THEN Issue([@ EXCEPT !.key = id],
                                     StartOrder[5], StartOrder[5])
                          ELSE Throw(@)]
  /\ Others(r)

QuoteAgain(r) ==
  \/ QuoteStart(r) \/ QuoteClient(r) \/ QuoteSenderWallet(r)
  \/ QuoteReceiverWallet(r) \/ QuoteIncomingGrant(r)
  \/ QuoteIncomingPaymentAgain(r) \/ QuoteQuoteGrant(r) \/ QuoteQuote(r)
  \/ QuoteSpendGrant(r)

NextAgain == \E r \in Reqs : QuoteAgain(r) \/ Pago(r)

SpecAgain == Init /\ [][NextAgain]_vars

\* ------------------------------------------- process start, later revision
\* The later revision creates two clients.  Both factory functions are
\* async, so a failure is a rejected promise, never an exception: the
\* try/catch with process.exit(1) around their calls is not entered.
InitStart ==
  /\ clientOk \in BOOLEAN
  /\ receiverOk \in BOOLEAN
  /\ proc = "starting"
  /\ reqs = [r \in Reqs |-> IdleReq]
  /\ paySessions = <<>>
  /\ pendingGrants = <<>>
  /\ payments = {}
  /\ deletes = <<>>

\* app.listen is reached whatever became of the clients, and its callback
\* only logs when the wallets cannot be reached.  A rejected client promise
\* that nothing awaits yet is an unhandled rejection, on which the runtime
\* ends the process or only warns, by its version and flags.
Listen ==
  /\ proc = "starting"
  /\ proc' \in (IF clientOk /\ receiverOk THEN {"serving"}
                                          ELSE {"serving", "exited"})
  /\ UNCHANGED <<clientOk, receiverOk, reqs, paySessions, pendingGrants,
                 payments, deletes>>

\* /linkpay of the later revision awaits both clients before its first call
LinkpaySendingClient(r) ==
  /\ At(r, "linkpay", "sendingClientPromise")
  /\ reqs' = [reqs EXCEPT ![r] =
                IF clientOk THEN [@ EXCEPT !.pc = "receivingClientPromise"]
                            ELSE Throw(@)]
  /\ Others(r)

LinkpayReceivingClient(r) ==
  /\ At(r, "linkpay", "receivingClientPromise")
  /\ reqs' = [reqs EXCEPT ![r] =
                IF receiverOk THEN Issue(@, StartOrder[1], StartOrder[1])
                              ELSE Throw(@)]
  /\ Others(r)

LinkpayTwoClients(r) ==
  \/ LinkpayStart(r) \/ LinkpaySendingClient(r) \/ LinkpayReceivingClient(r)
  \/ LinkpaySenderWallet(r) \/ LinkpayReceiverWallet(r)
  \/ LinkpayIncomingGrant(r) \/ LinkpayIncomingPayment(r)
  \/ LinkpayQuoteGrant(r) \/ LinkpayQuote(r) \/ LinkpaySpendGrant(r)

NextStart ==
  \/ Listen
  \/ \E r \in Reqs :
       \/ LinkpayTwoClients(r) \/ CallbackStart(r) \/ CallbackResume(r)
       \/ Quote(r) \/ Pago(r)

SpecStart == InitStart /\ [][NextStart]_vars

\* ================================================================== claims
Resumes(t) == {r \in Reqs : reqs[r].kind = "callback" /\ reqs[r].key = t}
PaymentsFor(via, t) == {p \in payments : p.via = via /\ p.key = t}
Succeeded(t) == {r \in Resumes(t) : reqs[r].outcome = "PaymentCreated"}
IssuedStates == {reqs[q].key : q \in {x \in Reqs : reqs[x].kind = "linkpay"}} \ {NoValue}
Called(r, call) == \E i \in 1..Len(reqs[r].calls) : reqs[r].calls[i] = call

\* C1: of the Resume requests for one flow token that overlap in time, at
\* most one succeeds, and never are two outgoing payments created for the
\* token, also when the continuation reports a finalized grant to both.
C1_OneSuccessPerToken ==
  \A t \in IssuedStates :
    /\ Cardinality(Succeeded(t)) <= 1
    /\ Cardinality(PaymentsFor("callback", t)) <= 1

\* C2: an invocation of Resume or Execute has issued outgoingPayment.create,
\* or created a payment, only if its own grant continuation had returned a
\* grant that carries an access token; an invocation whose continuation
\* result is not finalized has issued no outgoingPayment.create.
C2_PaymentOnlyAfterFinalized ==
  /\ \A r \in Reqs :
       (reqs[r].kind \in {"callback", "pago"}
          /\ Called(r, "outgoingPayment.create"))
         => /\ Called(r, "grant.continue")
            /\ reqs[r].finalized.access_token # NoValue
            /\ reqs[r].finalized.access_token
                 = AccessTokenOf(reqs[r].stash.continueUri)
  /\ \A p \in payments :
       /\ Called(p.by, "outgoingPayment.create")
       /\ p.accessToken = reqs[p.by].finalized.access_token
       /\ p.accessToken # NoValue

C2_Witness ==
  /\ \E r \in Reqs : /\ reqs[r].kind \in {"callback", "pago"}
                     /\ reqs[r].outcome = "ConsentIncomplete"
                     /\ ~Called(r, "outgoingPayment.create")
  /\ \E p \in payments : reqs[p.by].outcome = "PaymentCreated"

\* C3: when the Resume requests for a token are issued one after the other,
\* at most one outgoing payment is created for the token, its session is
\* deleted at most once, and it is deleted exactly when the payment is made.
DeleteCount(t) == IF t \in DOMAIN deletes THEN deletes[t] ELSE 0

C3_SequentialResumesPayOnce ==
  \A t \in IssuedStates :
    /\ Cardinality(PaymentsFor("callback", t)) <= 1
    /\ DeleteCount(t) <= 1
    /\ DeleteCount(t) = Cardinality(PaymentsFor("callback", t))

\* a token whose first Resume failed upstream and whose retry then paid
C3_Witness ==
  \E t \in IssuedStates :
    /\ Cardinality(PaymentsFor("callback", t)) = 1
    /\ DeleteCount(t) = 1
    /\ \E r \in Resumes(t) : reqs[r].outcome = "UpstreamError"

\* C4: when a Resume for token t has succeeded the session of t is not in
\* the store, and a Resume for t that starts after that answers
\* SessionNotFound in its first turn, having issued no remote call.
C4_ReplayFindsNothing ==
  [][\A r \in Reqs :
       /\ (reqs'[r].kind = "callback" /\ reqs'[r].outcome = "PaymentCreated")
            => ~MapHas(paySessions', reqs'[r].key)
       /\ (reqs[r].pc = "idle" /\ reqs'[r].kind = "callback"
             /\ Succeeded(reqs'[r].key) # {})
            => /\ reqs'[r].pc = "done"
               /\ reqs'[r].outcome = "SessionNotFound"
               /\ reqs'[r].calls = <<>>]_vars

C4_Witness ==
  \E r1, r2 \in Reqs :
    /\ r1 < r2
    /\ reqs[r1].kind = "callback" /\ reqs[r1].outcome = "PaymentCreated"
    /\ reqs[r2].kind = "callback" /\ reqs[r2].key = reqs[r1].key
    /\ reqs[r2].outcome = "SessionNotFound"
    /\ ~MapHas(paySessions, reqs[r1].key)

\* C5: a Resume whose state parameter is missing or is not a key of the
\* session store answers SessionNotFound in its first turn: no remote call
\* is issued, no payment is created and the store is left as it was.
C5_UnknownTokenNotFound ==
  [][\A r \in Reqs :
       (reqs[r].pc = "idle" /\ reqs'[r].kind = "callback"
          /\ (reqs'[r].key = NoValue \/ reqs'[r].key \notin DOMAIN paySessions))
         => /\ reqs'[r].pc = "done"
            /\ reqs'[r].outcome = "SessionNotFound"
            /\ reqs'[r].calls = <<>>
            /\ paySessions' = paySessions
            /\ payments' = payments]_vars

\* a store that holds a session while requests without a token and with a
\* never-issued token were turned away
C5_Witness ==
  /\ DOMAIN paySessions # {}
  /\ \E r \in Reqs : /\ reqs[r].kind = "callback" /\ reqs[r].key = NoValue
                     /\ reqs[r].outcome = "SessionNotFound"
  /\ \E r \in Reqs : /\ reqs[r].kind = "callback" /\ reqs[r].key = UnknownState
                     /\ reqs[r].outcome = "SessionNotFound"

SpendGrantReturned(t) ==
  \E q \in Reqs : /\ reqs[q].kind = "linkpay" /\ reqs[q].key = t
                  /\ reqs[q].outcome = "Redirect"
                  /\ paySessions[t] = SessionOf(q)

Finalized(t) == {r \in Resumes(t) : reqs[r].finalized.access_token # NoValue}

C7_NoSessionOnceFinalized ==
  \A t \in DOMAIN paySessions : SpendGrantReturned(t) /\ Finalized(t) = {}

\* C7 as amended: a session of token t is in the store only if the spend
\* grant request of t's flow has returned and no Resume for t has created
\* the outgoing payment; it outlives a finalized continuation.
C7_SessionUntilPaid ==
  \A t \in DOMAIN paySessions :
    /\ SpendGrantReturned(t)
    /\ Succeeded(t) = {}
    /\ PaymentsFor("callback", t) = {}

\* the session is still stored after a Resume got the finalized grant and
\* then failed to create the payment
C7_Witness ==
  \E t \in DOMAIN paySessions :
    \E r \in Finalized(t) : reqs[r].outcome = "UpstreamError"

\* C8: a StartPayment or StartQuote that answers InvalidAmount does so in
\* its first turn, with no remote call issued and both maps left as they were.
C8_InvalidAmountNoEffect ==
  [][\A r \in Reqs :
       (reqs'[r].outcome = "InvalidAmount" /\ reqs[r].outcome # "InvalidAmount")
         => /\ reqs[r].pc = "idle"
            /\ reqs'[r].kind \in {"linkpay", "quote"}
            /\ reqs'[r].pc = "done"
            /\ reqs'[r].calls = <<>>
            /\ paySessions' = paySessions
            /\ pendingGrants' = pendingGrants]_vars

C8_Witness ==
  /\ \E r \in Reqs : reqs[r].kind = "linkpay" /\ reqs[r].outcome = "InvalidAmount"
  /\ \E r \in Reqs : reqs[r].kind = "quote" /\ reqs[r].outcome = "InvalidAmount"
  /\ paySessions = <<>> /\ pendingGrants = <<>>

\* C9: the remote calls of a StartPayment or StartQuote are a prefix of the
\* order below, at most the last one has not returned yet, and the session
\* of the invocation is in a map only when all seven have returned.
C9_Order ==
  <<"walletAddress.get:sender", "walletAddress.get:receiver",
    "grant.request:incoming-payment", "incomingPayment.create",
    "grant.request:quote", "quote.create",
    "grant.request:outgoing-payment">>

Stored(r) ==
  \/ \E k \in DOMAIN paySessions : paySessions[k] = SessionOf(r)
  \/ \E k \in DOMAIN pendingGrants : pendingGrants[k] = SessionOf(r)

C9_StartCallsInOrder ==
  \A r \in Reqs :
    reqs[r].kind \in {"linkpay", "quote"} =>
      /\ Len(reqs[r].calls) <= Len(C9_Order)
      /\ reqs[r].calls = SubSeq(C9_Order, 1, Len(reqs[r].calls))
      /\ reqs[r].returned >= Len(reqs[r].calls) - 1
      /\ Stored(r) => (Len(reqs[r].calls) = 7 /\ reqs[r].returned = 7)

C9_Witness ==
  /\ \E r \in Reqs : reqs[r].kind = "linkpay" /\ Stored(r)
                     /\ reqs[r].calls = C9_Order
  /\ \E r \in Reqs : reqs[r].kind = "quote" /\ reqs[r].pc = "quote.create"
                     /\ reqs[r].returned = 5

\* C10: no invocation issues the same remote operation twice, and an
\* invocation in which a remote call failed has ended with that call as
\* its last one.
C10_NoRetry ==
  \A r \in Reqs :
    /\ \A i, j \in 1..Len(reqs[r].calls) :
         reqs[r].calls[i] = reqs[r].calls[j] => i = j
    /\ reqs[r].failedAt # 0 =>
         /\ reqs[r].failedAt = Len(reqs[r].calls)
         /\ reqs[r].returned = Len(reqs[r].calls) - 1
         /\ reqs[r].pc = "done"
         /\ reqs[r].outcome = "UpstreamError"

\* a Resume whose payment creation failed after two calls that succeeded
C10_Witness ==
  \E r \in Reqs :
    /\ reqs[r].kind = "callback" /\ reqs[r].failedAt = 3
    /\ reqs[r].calls = <<"grant.continue", "walletAddress.get:sender",
                         "outgoingPayment.create">>

\* C11: an invocation in which a remote call failed has answered with the
\* error outcome; an invocation that answered with a success payload (the
\* redirect, the quote result or the payment id) had every call it issued
\* return, and all the calls of its handler were issued.
SuccessPayloads == {"Redirect", "QuoteResult", "PaymentCreated"}

C11_FailureSurfaces ==
  \A r \in Reqs :
    /\ reqs[r].failedAt # 0 =>
         /\ reqs[r].pc = "done"
         /\ reqs[r].outcome \notin SuccessPayloads
         /\ reqs[r].outcome = "UpstreamError"
    /\ reqs[r].outcome \in SuccessPayloads =>
         /\ reqs[r].failedAt = 0
         /\ reqs[r].returned = Len(reqs[r].calls)
         /\ Len(reqs[r].calls) = IF reqs[r].kind \in {"linkpay", "quote"}
                                   THEN 7 ELSE 3

\* a /quote whose quote creation failed, next to flows that answered
C11_Witness ==
  /\ \E r \in Reqs : /\ reqs[r].kind = "quote" /\ reqs[r].failedAt = 6
                     /\ reqs[r].outcome = "UpstreamError"
  /\ \E r \in Reqs : reqs[r].outcome \in SuccessPayloads

\* the remote operations of each handler
HandlerCalls(kind) ==
  IF kind \in {"linkpay", "quote"}
    THEN {StartOrder[i] : i \in 1..Len(StartOrder)}
    ELSE {"grant.continue", "walletAddress.get:sender", "outgoingPayment.create"}

\* C12: the error outcome of an invocation whose remote step failed tells the
\* step: it differs from the error outcome the same handler gives when any
\* other of its steps fails.
C12_ErrorNamesStep ==
  \A r \in Reqs :
    reqs[r].failedAt # 0 =>
      \A c \in HandlerCalls(reqs[r].kind) \ {reqs[r].calls[reqs[r].failedAt]} :
        reqs[r].body # ErrorBody(reqs[r].kind, Rejection(c))

\* C13: at the turn in which /linkpay answers with the redirect, the session
\* store gains an entry under the token the invocation put in the finish uri
\* of its spend grant request, under no other key, and the entry holds the
\* continuation uri and continuation access token of that grant and the id
\* of the quote the same invocation created.
C13_RedirectStoresSession ==
  [][\A r \in Reqs :
       (reqs[r].outcome # "Redirect" /\ reqs'[r].outcome = "Redirect") =>
         /\ reqs[r].calls[Len(reqs[r].calls)] = "grant.request:outgoing-payment"
         /\ reqs[r].key = <<"state", r>>
         /\ reqs'[r].key = reqs[r].key
         /\ DOMAIN paySessions' = DOMAIN paySessions \cup {reqs[r].key}
         /\ paySessions'[reqs[r].key] =
              [continueUri |-> <<"continue", r>>,
               continueAccessToken |-> <<"ctoken", r>>,
               quoteId |-> <<"quote", r>>]
         /\ "quote.create" \in {reqs[r].calls[i] : i \in 1..reqs[r].returned}]_vars

\* a second /linkpay has answered with its redirect while the session of the
\* first is still stored
C13_Witness ==
  \E r1, r2 \in Reqs :
    /\ r1 < r2
    /\ reqs[r1].outcome = "Redirect" /\ reqs[r2].outcome = "Redirect"
    /\ MapHas(paySessions, reqs[r1].key) /\ MapHas(paySessions, reqs[r2].key)
    /\ MapGet(paySessions, reqs[r2].key).quoteId = QuoteId(r2)

\* C14: every outgoing payment created through /pay/callback for token t
\* references the quote of the one /linkpay invocation that generated t and
\* is created with the access token of the grant obtained by continuing the
\* spend grant of that invocation; it carries nothing of another invocation.
C14_PaymentUsesOwnFlow ==
  \A p \in payments :
    p.via = "callback" =>
      /\ reqs[p.by].kind = "callback" /\ reqs[p.by].key = p.key
      /\ \E q \in Reqs :
           /\ reqs[q].kind = "linkpay" /\ reqs[q].outcome = "Redirect"
           /\ p.key = <<"state", q>>
           /\ p.quoteId = <<"quote", q>>
           /\ p.accessToken = <<"access", q>>
           /\ \A x \in Reqs \ {q} :
                /\ p.quoteId # QuoteId(x)
                /\ p.accessToken # AccessTokenOf(ContinueUri(x))
                /\ reqs[x].kind = "linkpay" => reqs[x].key # p.key

\* the first of two started flows was resumed and paid while the session of
\* the second was stored
C14_Witness ==
  \E p \in payments : \E q2 \in Reqs :
    /\ p.via = "callback" /\ p.key = RandomUUID(1)
    /\ q2 # 1 /\ reqs[q2].kind = "linkpay" /\ reqs[q2].outcome = "Redirect"
    /\ MapHas(paySessions, reqs[q2].key)

\* C15: a step of an invocation working on token A leaves the session store
\* as it was under every other token B: no entry is added, changed or removed
\* there.  So the entry a Resume for A finds, the only shared state its
\* outcome depends on, is written and removed by invocations for A alone.
C15_OtherTokensUntouched ==
  [][\A r \in Reqs :
       reqs'[r] # reqs[r] =>
         \A k \in (DOMAIN paySessions \cup DOMAIN paySessions') \ {reqs'[r].key} :
           /\ MapHas(paySessions', k) = MapHas(paySessions, k)
           /\ MapGet(paySessions', k) = MapGet(paySessions, k)]_vars

\* flow A was started, resumed and paid and its entry removed, after flow B
\* had stored its session, which is still there unchanged
C15_Witness ==
  \E a, b, c \in Reqs :
    /\ a # b
    /\ reqs[a].kind = "linkpay" /\ reqs[b].kind = "linkpay"
    /\ reqs[c].kind = "callback" /\ reqs[c].key = reqs[a].key
    /\ reqs[c].outcome = "PaymentCreated"
    /\ ~MapHas(paySessions, reqs[a].key)
    /\ MapHas(paySessions, reqs[b].key)
    /\ paySessions[reqs[b].key] = SessionOf(b)

C17_NoPendingGrant ==
  [][\A r \in Reqs :
       (reqs[r].pc = "idle" /\ reqs'[r].kind = "pago"
          /\ ~MapHas(pendingGrants, reqs'[r].key)) =>
         /\ reqs'[r].outcome = "NoPendingGrant"
         /\ reqs'[r].pc = "done"
         /\ reqs'[r].calls = <<>>
         /\ pendingGrants' = pendingGrants
         /\ payments' = payments]_vars

\* an id that was never issued was refused while a real grant was pending,
\* and so was the request that carried no id
C17_Witness ==
  /\ DOMAIN pendingGrants # {}
  /\ \E r \in Reqs : /\ reqs[r].kind = "pago" /\ reqs[r].key = UnknownIp
                     /\ reqs[r].outcome = "NoPendingGrant"
  /\ \E r \in Reqs : /\ reqs[r].kind = "pago" /\ reqs[r].key = NoValue
                     /\ reqs[r].outcome = "NoPendingGrant"

\* C18: pendingGrants has the lifecycle of the flow session.  The turn in
\* which a /pago answers PaymentCreated leaves no entry under its receivable
\* id; a /pago arriving with an id some /pago was already paid for is
\* answered NoPendingGrant; and the turn in which a /pago answers
\* ConsentIncomplete, its continuation not being finalized, leaves the
\* registry as it was.
C18_RegistryLifecycle ==
  [][\A r \in Reqs :
       /\ (reqs'[r].kind = "pago" /\ reqs[r].outcome # "PaymentCreated"
             /\ reqs'[r].outcome = "PaymentCreated") =>
            /\ ~MapHas(pendingGrants', reqs[r].key)
            /\ \A k \in DOMAIN pendingGrants \ {reqs[r].key} :
                 MapHas(pendingGrants', k) /\ pendingGrants'[k] = pendingGrants[k]
       /\ (reqs[r].pc = "idle" /\ reqs'[r].kind = "pago"
             /\ \E x \in Reqs : /\ reqs[x].kind = "pago"
                                /\ reqs[x].key = reqs'[r].key
                                /\ reqs[x].outcome = "PaymentCreated") =>
            /\ reqs'[r].outcome = "NoPendingGrant"
            /\ reqs'[r].calls = <<>>
       /\ (reqs'[r].kind = "pago" /\ reqs[r].outcome # "ConsentIncomplete"
             /\ reqs'[r].outcome = "ConsentIncomplete") =>
            /\ ~isFinalizedGrant(reqs'[r].finalized)
            /\ pendingGrants' = pendingGrants
            /\ payments' = payments]_vars

\* a /pago was paid and the next /pago with the same id found nothing
C18_Witness ==
  \E q, a, b \in Reqs :
    /\ a < b
    /\ reqs[q].kind = "quote" /\ reqs[q].outcome = "QuoteResult"
    /\ reqs[a].kind = "pago" /\ reqs[a].key = reqs[q].key
    /\ reqs[a].outcome = "PaymentCreated"
    /\ reqs[b].kind = "pago" /\ reqs[b].key = reqs[q].key
    /\ reqs[b].outcome = "NoPendingGrant"
    /\ ~MapHas(pendingGrants, reqs[q].key)

\* the receivable ids /quote invocations have obtained
IssuedIps == {reqs[q].key : q \in {x \in Reqs : reqs[x].kind = "quote"}} \ {NoValue}

\* C19: for one receivable id at most one outgoing payment is ever created
\* through /pago, also when two /pago requests for the id overlap and the
\* continuation gives a finalized grant to both.
C19_OnePagoPaymentPerId ==
  \A k \in IssuedIps :
    \A p1, p2 \in PaymentsFor("pago", k) :
      (/\ isFinalizedGrant(reqs[p1.by].finalized)
       /\ isFinalizedGrant(reqs[p2.by].finalized)) => p1 = p2

\* C20: a /linkpay invocation has never issued grant.continue nor
\* outgoingPayment.create; once it answered with the redirect it is over,
\* with no call outstanding; and every payment of its flow was created by a
\* /pay/callback request, a different and later invocation.
C20_StartSuspends ==
  /\ \A r \in Reqs :
       reqs[r].kind = "linkpay" =>
         /\ ~Called(r, "grant.continue")
         /\ ~Called(r, "outgoingPayment.create")
         /\ reqs[r].finalized = PendingGrant
         /\ \A p \in payments : p.by # r
         /\ reqs[r].outcome = "Redirect" =>
              /\ reqs[r].pc = "done"
              /\ reqs[r].returned = Len(reqs[r].calls)
              /\ r \notin InFlight
  /\ \A t \in IssuedStates : \A p \in PaymentsFor("callback", t) :
       /\ reqs[p.by].kind = "callback"
       /\ \A q \in Reqs : (reqs[q].kind = "linkpay" /\ reqs[q].key = t) => q < p.by

\* the flow was started and answered, and a later request resumed and paid it
C20_Witness ==
  \E q, c \in Reqs :
    /\ q < c
    /\ reqs[q].kind = "linkpay" /\ reqs[q].outcome = "Redirect"
    /\ Len(reqs[q].calls) = 7
    /\ reqs[c].kind = "callback" /\ reqs[c].key = reqs[q].key
    /\ reqs[c].outcome = "PaymentCreated"
    /\ PaymentsFor("callback", reqs[q].key) # {}

\* C21: the entry of token t leaves the session store only in the turn in
\* which a /pay/callback for t answers PaymentCreated.  Every other step
\* (of /linkpay, of a /pay/callback that fails or is incomplete, of /quote
\* and /pago) leaves it in place with the same content, so the session of a
\* flow that is never resumed stays for good.
C21_OnlyPaidResumeRemoves ==
  [][\A t \in DOMAIN paySessions :
       \/ /\ MapHas(paySessions', t)
          /\ paySessions'[t] = paySessions[t]
       \/ \E r \in Reqs :
            /\ reqs[r].kind = "callback" /\ reqs[r].key = t
            /\ reqs[r].outcome # "PaymentCreated"
            /\ reqs'[r].outcome = "PaymentCreated"]_vars

\* the session of the first flow is still stored after a second flow was
\* started and a resume of the first failed upstream
C21_Witness ==
  \E a, b, c \in Reqs :
    /\ a < b
    /\ reqs[a].kind = "linkpay" /\ reqs[a].outcome = "Redirect"
    /\ reqs[b].kind \in {"linkpay", "quote"} /\ reqs[b].pc = "done"
    /\ reqs[c].kind = "callback" /\ reqs[c].key = reqs[a].key
    /\ reqs[c].outcome = "UpstreamError"
    /\ MapHas(paySessions, reqs[a].key)
    /\ paySessions[reqs[a].key] = SessionOf(a)

\* C22: when the creation of the sender's or of the receiver's client failed
\* at process start, no request of any of the four handlers has been carried
\* to a remote call.
C22_NoTrafficWithoutClients ==
  (~clientOk \/ ~receiverOk) =>
    \A r \in Reqs : reqs[r].calls = <<>>

\* the outcomes a caller can be given
Outcomes ==
  SuccessPayloads \cup {"InvalidAmount", "SessionNotFound", "NoPendingGrant",
                        "ConsentIncomplete", "UpstreamError"}

\* C23: every invocation that has arrived completes, and a completed
\* invocation has reported one outcome, the success payload or one error
\* kind; nothing is reported before completion and nothing changes after.
C23_EveryInvocationCompletes ==
  /\ \A r \in Reqs :
       (reqs[r].pc \notin {"idle", "done"}) ~>
         (reqs[r].pc = "done" /\ reqs[r].outcome \in Outcomes)
  /\ [][\A r \in Reqs :
          /\ reqs'[r].pc = "done" => reqs'[r].outcome \in Outcomes
          /\ reqs'[r].pc # "done" => reqs'[r].outcome = "none"
          /\ reqs[r].pc = "done" => reqs'[r] = reqs[r]]_vars

\* invocations of three handlers have completed, by a success payload, by
\* an incomplete consent and by a refusal
C23_Witness ==
  \E a, b, c \in Reqs :
    /\ reqs[a].kind = "quote" /\ reqs[a].outcome = "QuoteResult"
    /\ reqs[b].kind = "pago" /\ reqs[b].outcome = "ConsentIncomplete"
    /\ reqs[c].kind = "callback" /\ reqs[c].outcome = "SessionNotFound"
    /\ \A r \in Reqs : reqs[r].pc = "done"

\* C24: a start request is answered InvalidAmount exactly when its amount is
\* not a number, is infinite, is zero or is negative; a positive finite
\* amount is never refused and goes on into the flow.
C24_ExactlyPositiveFinite ==
  \A r \in Reqs :
    (reqs[r].raw # "none" /\ reqs[r].pc # "idle") =>
      LET n == Number(reqs[r].raw)
          bad == \/ n.kind \in {"nan", "inf"}
                 \/ n.m = 0
                 \/ n.m < 0
      IN /\ bad <=> reqs[r].outcome = "InvalidAmount"
         /\ bad => reqs[r].pc = "done"
         /\ ~bad => reqs[r].pc # "done" /\ reqs[r].amount = n

\* the empty amount, which Number() reads as zero, was refused
C24_Witness ==
  \E r \in Reqs : /\ reqs[r].raw = "" /\ reqs[r].kind = "quote"
                  /\ reqs[r].outcome = "InvalidAmount"

IsDigitString(str) ==
  Len(str) > 0 /\ \A i \in 1..Len(str) : \E d \in 1..10 : str[i] = DigitChars[d]

DigitValue(c) == (CHOOSE d \in 1..10 : DigitChars[d] = c) - 1

RECURSIVE ParseInt(_)
ParseInt(ds) ==
  IF Len(ds) = 0 THEN 0
  ELSE 10 * ParseInt(SubSeq(ds, 1, Len(ds) - 1)) + DigitValue(ds[Len(ds)])

\* a digit string read as minor units and taken back to major units
ToMajor(str, scale) ==
  LET sd == StripZeros(str)
  IN Dec(ParseInt(sd), (Len(str) - Len(sd)) - scale)

\* C26: the value toMinor gives is a string of digits; for an amount with
\* no more decimal places than the scale it is exactly the digits of the
\* amount times 10^scale; and taken back to major units and converted
\* again it is the same string.
C26_ToMinorExact ==
  \A r \in Reqs :
    reqs[r].pc = "incomingPayment.create" =>
      LET a == reqs[r].amount
          s == reqs[r].scale
          v == reqs[r].value
      IN /\ v = toMinor(a, s)
         /\ IsDigitString(v)
         /\ (a.e + s >= 0) => v = Digits(a.m) \o Zeros(a.e + s)
         /\ IsDigitString(v) => toMinor(ToMajor(v, s), s) = v

\* the /quote invocation that stored last under key k
LastStored(k) ==
  LET qs == {q \in Reqs : /\ reqs[q].kind = "quote" /\ reqs[q].key = k
                          /\ reqs[q].outcome = "QuoteResult"}
  IN CHOOSE q \in qs : \A x \in qs : x <= q

\* C25: a /quote that stores its session under a key leaves there its own
\* session, whatever the key held before, and a /pago that arrives
\* afterwards works with the session stored last: it continues that grant
\* and pays with that quote id, not with those of a superseded session.
C25_LastWriteWins ==
  [][\A r \in Reqs :
       /\ (reqs[r].outcome # "QuoteResult" /\ reqs'[r].outcome = "QuoteResult") =>
            /\ MapHas(pendingGrants', reqs[r].key)
            /\ pendingGrants'[reqs[r].key] =
                 [continueUri |-> <<"continue", r>>,
                  continueAccessToken |-> <<"ctoken", r>>,
                  quoteId |-> <<"quote", r>>]
       /\ (reqs[r].pc = "idle" /\ reqs'[r].kind = "pago"
             /\ MapHas(pendingGrants, reqs'[r].key)) =>
            /\ reqs'[r].stash.quoteId = QuoteId(LastStored(reqs'[r].key))
            /\ reqs'[r].stash.continueUri = ContinueUri(LastStored(reqs'[r].key))
       /\ (reqs[r].kind = "pago" /\ reqs[r].outcome # "PaymentCreated"
             /\ reqs'[r].outcome = "PaymentCreated") =>
            \E p \in payments' \ payments :
              /\ p.by = r /\ p.quoteId = reqs[r].stash.quoteId
              /\ p.accessToken = AccessTokenOf(reqs[r].stash.continueUri)]_vars

\* two /quote invocations stored under one receivable id, and the /pago that
\* came after them paid with the quote of the second
C25_Witness ==
  \E q1, q2, p \in Reqs :
    /\ q1 < q2 /\ q2 < p
    /\ reqs[q1].kind = "quote" /\ reqs[q1].outcome = "QuoteResult"
    /\ reqs[q2].kind = "quote" /\ reqs[q2].outcome = "QuoteResult"
    /\ reqs[q1].key = reqs[q2].key
    /\ reqs[p].kind = "pago" /\ reqs[p].key = reqs[q2].key
    /\ reqs[p].outcome = "PaymentCreated"
    /\ \E pay \in payments : pay.by = p /\ pay.quoteId = QuoteId(q2)

\* C27: the turn in which a /pay/callback or /pago ends with an upstream
\* error changes neither map and creates no payment, whichever of its calls
\* failed: the grant continuation, the wallet lookup, or the payment
\* creation after the continuation had returned a finalized grant.
C27_FailedResumeKeepsSession ==
  [][\A r \in Reqs :
       (reqs[r].kind \in {"callback", "pago"}
          /\ reqs[r].outcome # "UpstreamError"
          /\ reqs'[r].outcome = "UpstreamError") =>
         /\ paySessions' = paySessions
         /\ pendingGrants' = pendingGrants
         /\ payments' = payments
         /\ deletes' = deletes
         /\ (reqs[r].kind = "callback" /\ MapHas(paySessions, reqs[r].key)) =>
              /\ MapHas(paySessions', reqs[r].key)
              /\ paySessions'[reqs[r].key] = paySessions[reqs[r].key]
         /\ (reqs[r].kind = "pago" /\ MapHas(pendingGrants, reqs[r].key)) =>
              /\ MapHas(pendingGrants', reqs[r].key)
              /\ pendingGrants'[reqs[r].key] = pendingGrants[reqs[r].key]]_vars

\* the continuation gave a finalized grant, the payment creation failed, and
\* the session is in the store as the handler read it
C27_Witness ==
  \E r \in Reqs :
    /\ reqs[r].kind = "callback" /\ reqs[r].outcome = "UpstreamError"
    /\ isFinalizedGrant(reqs[r].finalized)
    /\ reqs[r].failedAt = 3
    /\ reqs[r].calls[3] = "outgoingPayment.create"
    /\ MapHas(paySessions, reqs[r].key)
    /\ paySessions[reqs[r].key] = reqs[r].stash
    /\ payments = {}

\* C28: no step of a /linkpay or /quote invocation other than the one that
\* answers with the success payload changes paySessions or pendingGrants,
\* so an invocation that fails at a remote step leaves both maps as they
\* were when it arrived, and a failed invocation's session is in neither.
C28_FailedStartStoresNothing ==
  [][\A r \in Reqs :
       /\ (reqs'[r].kind \in {"linkpay", "quote"} /\ reqs'[r] # reqs[r]
             /\ reqs'[r].outcome \notin {"Redirect", "QuoteResult"}) =>
            /\ paySessions' = paySessions
            /\ pendingGrants' = pendingGrants
       /\ (reqs'[r].kind \in {"linkpay", "quote"}
             /\ reqs'[r].outcome = "UpstreamError") =>
            /\ ~MapHas(paySessions', reqs'[r].key)
            /\ ~MapHas(pendingGrants', reqs'[r].key)
            /\ \A k \in DOMAIN paySessions' : paySessions'[k] # SessionOf(r)
            /\ \A k \in DOMAIN pendingGrants' : pendingGrants'[k] # SessionOf(r)]_vars

\* the spend grant request of a /linkpay failed after its token had been
\* generated; the session of another flow is the only one stored
C28_Witness ==
  \E r, q \in Reqs :
    /\ reqs[r].kind = "linkpay" /\ reqs[r].outcome = "UpstreamError"
    /\ reqs[r].failedAt = 7 /\ reqs[r].key = RandomUUID(r)
    /\ ~MapHas(paySessions, reqs[r].key)
    /\ reqs[q].kind = "quote" /\ reqs[q].outcome = "QuoteResult"
    /\ DOMAIN pendingGrants = {reqs[q].key}
    /\ paySessions = <<>>
====
